---- MODULE Spec2Model ----
(***************************************************************************)
(* PyBrary: a personal book catalogue kept in a CSV file.                  *)
(*                                                                         *)
(* Two applications share the design and are modelled side by side:        *)
(*   "tk"  the Tkinter application  (src/unnamed/part_000)                 *)
(*   "qt"  the PySide application   (src/PyBrary.py)                       *)
(* The variable `variant` says which one is running.                       *)
(*                                                                         *)
(* Python strings are sequences of characters (one-character TLA+ strings, *)
(* plus a few multi-character tokens inside paths and dates); Python's     *)
(* None is the reserved value PyNone.                                      *)
(***************************************************************************)
EXTENDS Integers, Sequences, FiniteSets, TLC

\* ---------------------------------------------------------------- bounds

\* Largest number of records the in-memory collection may reach.
MaxBooks == 2

\* Longest raw text typed into the ISBN entry field.
MaxRawLen == 2

\* Last calendar day on which the application may be started.
MaxDay == 1

\* Largest number of rows of a backing file the application did not write.
MaxFileRows == 2

\* Longest string handed to clean_isbn on its own.
MaxCleanLen == 3

\* ------------------------------------------------------- Python strings

PyNone == <<"<None>">>

\* str(x): the text of a value; str(None) is "None".
Str(x) == IF x = PyNone THEN <<"N", "o", "n", "e">> ELSE x

\* bool(x) of a value that is None or a string.
Truthy(x) == x # PyNone /\ x # <<>>

\* Code point of a character.
Code(c) ==
  CASE c = "\t" -> 9   [] c = " " -> 32  [] c = "-" -> 45  [] c = "/" -> 47
    [] c = "1" -> 49   [] c = "2" -> 50  [] c = "3" -> 51
    [] c = "A" -> 65   [] c = "B" -> 66  [] c = "N" -> 78  [] c = "Y" -> 89
    [] c = "a" -> 97   [] c = "b" -> 98  [] c = "e" -> 101 [] c = "n" -> 110
    [] c = "o" -> 111  [] c = "s" -> 115 [] c = "x" -> 120 [] c = "y" -> 121
    [] OTHER -> 0

\* str.lower() on one character.
LowerChar(c) ==
  CASE c = "A" -> "a" [] c = "B" -> "b" [] c = "N" -> "n" [] c = "Y" -> "y"
    [] OTHER -> c

\* str.lower()
Lower(s) == [i \in 1..Len(s) |-> LowerChar(s[i])]

\* s < t for Python strings: lexicographic by code point.
RECURSIVE StrLess(_, _)
StrLess(s, t) ==
  IF t = <<>> THEN FALSE
  ELSE IF s = <<>> THEN TRUE
  ELSE IF Code(Head(s)) # Code(Head(t)) THEN Code(Head(s)) < Code(Head(t))
  ELSE StrLess(Tail(s), Tail(t))

\* str.replace(c, ""): every occurrence of the character c removed.
RECURSIVE Remove(_, _)
Remove(s, c) ==
  IF s = <<>> THEN <<>>
  ELSE IF Head(s) = c THEN Remove(Tail(s), c)
  ELSE <<Head(s)>> \o Remove(Tail(s), c)

\* The characters str.strip() removes.
IsSpace(c) == c \in {" ", "\t", "\n", "\r"}

RECURSIVE LStrip(_)
LStrip(s) == IF s # <<>> /\ IsSpace(Head(s)) THEN LStrip(Tail(s)) ELSE s

RECURSIVE RStrip(_)
RStrip(s) ==
  IF s # <<>> /\ IsSpace(s[Len(s)]) THEN RStrip(SubSeq(s, 1, Len(s) - 1)) ELSE s

\* str.strip()
Strip(s) == RStrip(LStrip(s))

\* str.replace(c, "", 1): the first occurrence of the character c removed.
RECURSIVE RemoveFirst(_, _)
RemoveFirst(s, c) ==
  IF s = <<>> THEN <<>>
  ELSE IF Head(s) = c THEN Tail(s)
  ELSE <<Head(s)>> \o RemoveFirst(Tail(s), c)

\* clean_isbn replacing only the first hyphen and the first space.
clean_isbn_FirstOnly(v, isbn) ==
  IF v = "tk" THEN Strip(RemoveFirst(RemoveFirst(isbn, "-"), " "))
  ELSE RemoveFirst(RemoveFirst(isbn, "-"), " ")

\* clean_isbn: the Tkinter copy ("tk") strips the result; the PySide copy
\* ("qt") and the demo generator's copy ("demo") do not.
clean_isbn(v, isbn) ==
  IF v = "tk" THEN Strip(Remove(Remove(isbn, "-"), " "))
  ELSE Remove(Remove(isbn, "-"), " ")

\* ------------------------------------------------------------- records

No  == <<"N", "o">>
Yes == <<"Y", "e", "s">>
NA  == <<"N", "/", "A">>

\* FIELDNAMES of each application and of the demo generator ("demo"): the CSV
\* header, in order.
FIELDNAMES(v) ==
  IF v = "tk"
  THEN <<"ISBN", "Title", "Author", "Publisher", "PublishedDate",
         "ImagePath", "ReadStatus", "DateAdded">>
  ELSE IF v = "demo"
  THEN <<"id", "title", "authors", "illustrators", "translators", "editors",
         "publisher", "published_date", "description", "isbn_13", "isbn_10",
         "page_count", "categories", "average_rating", "ratings_count",
         "info_link", "cover_image_path", "tags", "notes", "read_status",
         "date_added", "date_modified", "openlibrary_id", "goodreads_id",
         "librarything_id">>
  ELSE <<"ISBN", "Title", "Author", "Publisher", "PublishedDate",
         "ImagePath", "DateAdded", "ReadStatus">>

Fields == {"ISBN", "Title", "Author", "Publisher", "PublishedDate",
           "ImagePath", "ReadStatus", "DateAdded"}

Range(s) == {s[i] : i \in 1..Len(s)}

ISBNs(c) == {c[i].ISBN : i \in 1..Len(c)}

\* ------------------------------------------------------------- sorting

\* SortKey without .lower(): a case-sensitive sort.
SortKey_CaseSensitive(v, book) ==
  IF v = "tk" THEN <<Str(book.Title)>> ELSE <<Str(book.Title), Str(book.Author)>>

\* The sort key of a record: lower-cased Title, and in PySide also Author.
SortKey(v, book) ==
  IF v = "tk" THEN <<Lower(Str(book.Title))>>
  ELSE <<Lower(Str(book.Title)), Lower(Str(book.Author))>>

\* k1 < k2 for tuples of strings (Python compares tuples lexicographically).
RECURSIVE KeyLess(_, _)
KeyLess(k1, k2) ==
  IF k2 = <<>> THEN FALSE
  ELSE IF k1 = <<>> THEN TRUE
  ELSE IF Head(k1) # Head(k2) THEN StrLess(Head(k1), Head(k2))
  ELSE KeyLess(Tail(k1), Tail(k2))

\* One step of a stable sort: book goes after every record whose key is not
\* greater than its own.
RECURSIVE InsertByKey(_, _, _)
InsertByKey(v, sorted, book) ==
  IF sorted = <<>> THEN <<book>>
  ELSE IF KeyLess(SortKey(v, book), SortKey(v, Head(sorted)))
       THEN <<book>> \o sorted
       ELSE <<Head(sorted)>> \o InsertByKey(v, Tail(sorted), book)

RECURSIVE SortFrom(_, _, _)
SortFrom(v, sorted, rest) ==
  IF rest = <<>> THEN sorted
  ELSE SortFrom(v, InsertByKey(v, sorted, Head(rest)), Tail(rest))

\* _sort_collection: list.sort(key=...), which is stable.
_sort_collection(v, c) == SortFrom(v, <<>>, c)

\* ------------------------------------------------------ the backing file

\* The backing file is absent (NoFile) or holds a header line and rows of
\* cells; csv's quoting is transparent, so a cell is the string written.
NoFile == [exists |-> FALSE, hdr |-> <<>>, rows |-> <<>>]

CsvFile(hdr, rows) == [exists |-> TRUE, hdr |-> hdr, rows |-> rows]

\* WriteCell writing str(None) for None.
WriteCell_StrOfNone(x) == Str(x)

\* What csv.writer writes for a value: None becomes the empty string.
WriteCell(x) == IF x = PyNone THEN <<>> ELSE x

\* DictWriter.writeheader() and writerows(collection).
WrittenFile(v, c) ==
  CsvFile(FIELDNAMES(v),
          [i \in 1..Len(c) |->
             [j \in 1..Len(FIELDNAMES(v)) |-> WriteCell(c[i][FIELDNAMES(v)[j]])]])

\* What a failed write can leave on disk: open() failed and the file is as it
\* was, or the file was truncated and the header and some of the rows got out.
FailedWrites(v, old, c) ==
  {old, CsvFile(<<>>, <<>>)}
    \cup {CsvFile(FIELDNAMES(v), SubSeq(WrittenFile(v, c).rows, 1, k)) :
            k \in 0..(Len(c) - 1)}

\* Column of a header name (0 when the header lacks it).
ColumnOf(hdr, name) ==
  IF name \in Range(hdr) THEN CHOOSE j \in 1..Len(hdr) : hdr[j] = name ELSE 0

\* One row as csv.DictReader yields it: the header names are the keys, and a
\* row shorter than the header has None (restval) for its missing cells.
RowDict(hdr, cells) ==
  [name \in Range(hdr) |->
     IF ColumnOf(hdr, name) <= Len(cells) THEN cells[ColumnOf(hdr, name)]
     ELSE PyNone]

\* row.get(name, default)
Get(row, name, default) == IF name \in DOMAIN row THEN row[name] ELSE default

\* DictReader skips rows without any cell (blank lines).
RECURSIVE DictRows(_, _)
DictRows(hdr, rows) ==
  IF rows = <<>> THEN <<>>
  ELSE IF Head(rows) = <<>> THEN DictRows(hdr, Tail(rows))
  ELSE <<RowDict(hdr, Head(rows))>> \o DictRows(hdr, Tail(rows))

\* Tkinter: the record built from one row.
TkBookData(row) ==
  [ISBN          |-> Get(row, "ISBN", PyNone),
   Title         |-> Get(row, "Title", NA),
   Author        |-> Get(row, "Author", NA),
   Publisher     |-> Get(row, "Publisher", NA),
   PublishedDate |-> Get(row, "PublishedDate", NA),
   ImagePath     |-> IF Truthy(Get(row, "ImagePath", PyNone))
                     THEN Get(row, "ImagePath", PyNone) ELSE PyNone,
   ReadStatus    |-> Get(row, "ReadStatus", No),
   DateAdded     |-> Get(row, "DateAdded", NA)]

\* Tkinter: rows without an ISBN are skipped.
RECURSIVE TkRows(_)
TkRows(dicts) ==
  IF dicts = <<>> THEN <<>>
  ELSE IF ~Truthy(Get(Head(dicts), "ISBN", PyNone)) THEN TkRows(Tail(dicts))
  ELSE <<TkBookData(Head(dicts))>> \o TkRows(Tail(dicts))

\* load_collection_on_start (Tkinter): the collection after the load.
load_collection_on_start(f) ==
  IF f.exists THEN _sort_collection("tk", TkRows(DictRows(f.hdr, f.rows)))
  ELSE <<>>

\* PySide: the record built from one row.
QtBookItem(row) == [field \in Fields |-> Get(row, field, <<>>)]

\* load_collection (PySide): the collection after the load of an existing file.
load_collection(f) ==
  IF f.exists
  THEN _sort_collection("qt",
         [i \in 1..Len(DictRows(f.hdr, f.rows)) |->
            QtBookItem(DictRows(f.hdr, f.rows)[i])])
  ELSE <<>>

\* QtFilesAfterLoad writing a fresh header over a file whose header is not
\* FIELDNAMES.
QtFilesAfterLoad_Rewrites(f) ==
  IF f.exists /\ f.hdr = FIELDNAMES("qt") THEN {f}
  ELSE {CsvFile(FIELDNAMES("qt"), <<>>), NoFile}

\* PySide creates a header-only file when none exists; the creation can fail.
QtFilesAfterLoad(f) ==
  IF f.exists THEN {f} ELSE {CsvFile(FIELDNAMES("qt"), <<>>), NoFile}

Load(v, f) == IF v = "tk" THEN load_collection_on_start(f) ELSE load_collection(f)

\* Reading an existing file can raise (open, decoding, csv.Error): err = k says
\* that it raises after k - 1 rows were read, err = 0 that it does not.
ReadErrors(f) == IF f.exists THEN 1..(Len(f.rows) + 1) ELSE {}

\* The file as far as it was read when the reader raised.
ReadPrefix(f, err) == [f EXCEPT !.rows = SubSeq(f.rows, 1, err - 1)]

\* LoadWithError keeping the rows that were read before the reader raised.
LoadWithError_KeepsPrefix(v, f, err) ==
  IF err = 0 THEN Load(v, f) ELSE Load(v, ReadPrefix(f, err))

\* The collection after a load: both except clauses leave it empty.
LoadWithError(v, f, err) == IF err = 0 THEN Load(v, f) ELSE <<>>

\* How the load ends: PySide reports the file it could not create.
LoadResult(v, f0, f, err) ==
  IF err # 0 THEN "LoadError"
  ELSE IF v = "qt" /\ ~f0.exists /\ ~f.exists THEN "CreateError"
  ELSE "Done"

\* ------------------------------------------------------------ the state

VARIABLES
  variant,      \* "tk" or "qt": the application that is running
  today,        \* the calendar day, as date.today() reports it
  collection,   \* the global list `collection`
  file,         \* the backing CSV file
  covers,       \* the covers directory: the files in it, by ISBN, and their content
  tree,         \* Tkinter: the item ids of collection_tree
  pc,           \* the position of the running handler ("Idle": none runs)
  run,          \* the handler run in progress
  book_details, \* add-book: the record being built
  cover_ref     \* add-book: the cover reference of the metadata result

vars == <<variant, today, collection, file, covers, tree, pc, run,
          book_details, cover_ref>>

\* date.today().isoformat()
isoformat(d) == <<"day", ToString(d)>>

NoDetails == [ISBN |-> <<>>, Title |-> <<>>, Author |-> <<>>, Publisher |-> <<>>,
              PublishedDate |-> <<>>, ImagePath |-> <<>>, ReadStatus |-> <<>>,
              DateAdded |-> <<>>]

\* JSON values of a covers list: an integer or something else (null, a string).
JInt(n) == [int |-> TRUE, n |-> n]
JNull   == [int |-> FALSE, n |-> 0]

\* The cover reference of a metadata result: the 'cover' object's 'medium' URL
\* (PyNone when there is none) and the 'covers' list.
NoCoverRef == [medium |-> PyNone, covers |-> <<>>]

\* A handler run: the operation, the cleaned ISBN it is about, the collection
\* and the file when it began, the requests it issued, the attempts to write
\* the backing file, and how it ended. A toggle also has the status requested
\* and the index of the record it found; an add-book has the user's Yes and
\* the way the cover request went.
Run(op, isbn, reqs, writes, result) ==
  [op |-> op, isbn |-> isbn, before |-> collection, disk |-> file,
   reqs |-> reqs, writes |-> writes, result |-> result,
   new_status |-> <<>>, index |-> 0, confirmed |-> FALSE, cover |-> "none"]

NoRun == [op |-> "none", isbn |-> <<>>, before |-> <<>>, disk |-> NoFile,
          reqs |-> <<>>, writes |-> 0, result |-> "none",
          new_status |-> <<>>, index |-> 0, confirmed |-> FALSE, cover |-> "none"]

\* ------------------------------------------------------------- start-up

\* Records in the file the application finds when it starts.
OldBook(isbn, title, author, status) ==
  [ISBN |-> isbn, Title |-> title, Author |-> author, Publisher |-> NA,
   PublishedDate |-> NA, ImagePath |-> PyNone, ReadStatus |-> status,
   DateAdded |-> <<"day", "0">>]

StartFiles(v) ==
  {NoFile,
   WrittenFile(v, <<OldBook(<<"1">>, <<"a">>, <<"x">>, Yes)>>),
   WrittenFile(v, <<OldBook(<<"2">>, <<"B">>, <<"y">>, No),
                    OldBook(<<"1">>, <<"a">>, <<"x">>, Yes)>>),
   WrittenFile(v, <<OldBook(<<"2">>, <<"B">>, <<"y">>, No),
                    OldBook(<<"3">>, <<"b">>, <<"x">>, No)>>)}

\* update_collection_treeview: one item per record with an ISBN; inserting an
\* id a second time raises TclError, which is caught.
update_collection_treeview(c) == {x \in ISBNs(c) : Truthy(x)}

\* main() / MainWindow.__init__: load the file f0 and fill the views.
Loaded(v, f0, err, c, f, t) ==
  /\ f \in (IF v = "tk" THEN {f0} ELSE QtFilesAfterLoad(f0))
  /\ c = LoadWithError(v, f0, err)
  /\ t = IF v = "tk" THEN update_collection_treeview(LoadWithError(v, f0, err)) ELSE {}

Init ==
  /\ variant \in {"tk", "qt"}
  /\ today \in 1..MaxDay
  /\ \E f0 \in StartFiles(variant) : Loaded(variant, f0, 0, collection, file, tree)
  /\ covers = {}
  /\ pc = "Idle"
  /\ run = NoRun
  /\ book_details = NoDetails
  /\ cover_ref = NoCoverRef

\* The handler returns to the event loop: its locals are gone.
Return ==
  /\ pc = "Returned"
  /\ pc' = "Idle"
  /\ run' = NoRun
  /\ book_details' = NoDetails
  /\ cover_ref' = NoCoverRef
  /\ UNCHANGED <<variant, today, collection, file, covers, tree>>

\* A handler run ends with result.
EndRun(result) ==
  /\ pc' = "Returned"
  /\ run' = [run EXCEPT !.result = result]

\* The application is closed and started again: the collection is reloaded.
\* The run keeps in index where the reader raised.
Restart(err) ==
  /\ pc = "Idle"
  /\ Loaded(variant, file, err, collection', file', tree')
  /\ pc' = "Returned"
  /\ run' = [Run("load", <<>>, <<>>, 0, LoadResult(variant, file, file', err))
              EXCEPT !.index = err]
  /\ UNCHANGED <<variant, today, covers, book_details, cover_ref>>

\* --------------------------------------------------------------- persist

\* save_collection_to_file: Tkinter sorts first; then the file is rewritten.
\* The collection as the call leaves it:
SavedCollection(v, c) == IF v = "tk" THEN _sort_collection("tk", c) ELSE c

\* SavedFiles opening the file for append: the rows go after the old ones.
SavedFiles_Appends(v, c, ok) ==
  IF ok
  THEN {CsvFile(FIELDNAMES(v), file.rows \o WrittenFile(v, SavedCollection(v, c)).rows)}
  ELSE FailedWrites(v, file, SavedCollection(v, c))

\* The files the call can leave: ok says whether the write succeeded.
SavedFiles(v, c, ok) ==
  IF ok THEN {WrittenFile(v, SavedCollection(v, c))}
  ELSE FailedWrites(v, file, SavedCollection(v, c))

SaveResult(ok) == IF ok THEN "Done" ELSE "PersistenceError"

\* The 'Save Collection' button: save_collection_to_file (Tkinter),
\* manual_save_collection (PySide).
manual_save_collection ==
  /\ pc = "Idle"
  /\ \E ok \in BOOLEAN :
       /\ file' \in SavedFiles(variant, collection, ok)
       /\ run' = Run("save", <<>>, <<>>, 1, SaveResult(ok))
  /\ collection' = SavedCollection(variant, collection)
  /\ pc' = "Returned"
  /\ UNCHANGED <<variant, today, covers, tree, book_details, cover_ref>>

\* ------------------------------------------------------------ read status

\* The list items the user can select: item ids (Tkinter), rows (PySide).
ListItems == IF variant = "tk" THEN tree ELSE 1..Len(collection)

\* The index of the record the handler updates: Tkinter takes the first
\* record whose ISBN is the selected item id, PySide the selected item's record.
SelectedIndex(item) ==
  IF variant = "tk"
  THEN CHOOSE i \in 1..Len(collection) :
         /\ collection[i].ISBN = item
         /\ \A j \in 1..(i - 1) : collection[j].ISBN # item
  ELSE item

\* SetReadStatus stamping the record with a new DateAdded as well.
SetReadStatus_Restamps(c, i, new_status) ==
  [c EXCEPT ![i].ReadStatus = new_status, ![i].DateAdded = isoformat(today)]

\* book['ReadStatus'] = new_status
SetReadStatus(c, i, new_status) == [c EXCEPT ![i].ReadStatus = new_status]

\* The run of a toggle.
ToggleRun(item, new_status, writes, result) ==
  [Run("toggle", collection[SelectedIndex(item)].ISBN, <<>>, writes, result)
     EXCEPT !.new_status = new_status, !.index = SelectedIndex(item)]

\* toggle_read_status without the comparison with the stored status.
toggle_read_status_AlwaysSaves(item, new_status) ==
  /\ pc = "Idle"
  /\ \E ok \in BOOLEAN :
       /\ collection' =
            SavedCollection(variant,
              SetReadStatus(collection, SelectedIndex(item), new_status))
       /\ file' \in SavedFiles(variant,
              SetReadStatus(collection, SelectedIndex(item), new_status), ok)
       /\ run' = ToggleRun(item, new_status, 1, SaveResult(ok))
  /\ pc' = "Returned"
  /\ UNCHANGED <<variant, today, covers, tree, book_details, cover_ref>>

\* toggle_read_status: item is selected and the check box reports new_status.
toggle_read_status(item, new_status) ==
  /\ pc = "Idle"
  /\ IF collection[SelectedIndex(item)].ReadStatus = new_status
     THEN /\ run' = ToggleRun(item, new_status, 0, "Unchanged")
          /\ UNCHANGED <<collection, file>>
     ELSE \E ok \in BOOLEAN :
            /\ collection' =
                 SavedCollection(variant,
                   SetReadStatus(collection, SelectedIndex(item), new_status))
            /\ file' \in SavedFiles(variant,
                   SetReadStatus(collection, SelectedIndex(item), new_status), ok)
            /\ run' = ToggleRun(item, new_status, 1, SaveResult(ok))
  /\ pc' = "Returned"
  /\ UNCHANGED <<variant, today, covers, tree, book_details, cover_ref>>

\* --------------------------------------------------------------- add book

\* The characters the user types into the ISBN field.
InputChars == {"1", "-", " "}

RawInputs == UNION {[1..n -> InputChars] : n \in 0..MaxRawLen}

\* A key the JSON object lacks.
Missing == <<"<missing>">>

\* dict.get(key, default) on a JSON object's member.
GetOr(x, default) == IF x = Missing THEN default ELSE x

\* sep.join(strs)
RECURSIVE Join(_, _)
Join(strs, sep) ==
  IF strs = <<>> THEN <<>>
  ELSE IF Len(strs) = 1 THEN strs[1]
  ELSE strs[1] \o sep \o Join(Tail(strs), sep)

CommaSpace == <<",", " ">>

\* Ways a request ends without a usable metadata document.
MetadataFailures ==
  {"NotFound", "HTTPError", "NetworkError", "Timeout", "MalformedResponse"}

\* Ways the cover request can go: no response (HTTP 404, connection error,
\* timeout), a response that is not an image (an HTML page, a response
\* without a content type, a response of a type that is not image/... but has
\* the word image in it), an image, an image response with corrupt bytes, a
\* local file that cannot be opened or written to the end, and a connection
\* that breaks while the body is streamed.
CoverOutcomes ==
  {"HTTP404", "ConnectionError", "Timeout", "NotImage", "NoContentType",
   "ImageInSubtype", "Image", "Corrupt", "OpenError", "WriteError",
   "StreamError"}

CoverRequestFailed(o) == o \in {"HTTP404", "ConnectionError", "Timeout"}

\* response.headers.get('content-type', '').lower() of a response, in words.
ContentType(o) ==
  CASE o = "NotImage"       -> <<"text", "/", "html">>
    [] o = "NoContentType"  -> <<>>
    [] o = "ImageInSubtype" -> <<"text", "/", "x-", "image", "-error">>
    [] OTHER                -> <<"image", "/", "jpeg">>

\* Tkinter: 'image' in content_type
TkIsImage(ct) == "image" \in Range(ct)

\* PySide, demo generator: content_type.startswith('image/')
QtIsImage(ct) == Len(ct) >= 2 /\ ct[1] = "image" /\ ct[2] = "/"

\* The covers directory with the file of isbn holding content of that kind:
\* "image" (a complete, valid image) or "invalid" (truncated or corrupt bytes).
PutCover(dir, isbn, kind) ==
  {f \in dir : f.name # isbn} \cup {[name |-> isbn, kind |-> kind]}

RemoveCover(dir, isbn) == {f \in dir : f.name # isbn}

\* The cover references a metadata document can carry.
CoverRefs ==
  {NoCoverRef,
   [medium |-> <<"http://medium">>, covers |-> <<>>],
   [medium |-> PyNone, covers |-> <<JInt(5)>>],
   [medium |-> PyNone, covers |-> <<JInt(0)>>],
   [medium |-> PyNone, covers |-> <<JInt(-1)>>],
   [medium |-> PyNone, covers |-> <<JNull>>]}

\* ---- Tkinter: fetch_and_add_book

\* Treeview.exists(item): the root item has the empty id and always exists.
TreeExists(t, iid) == iid = <<>> \/ iid \in t

\* The documents the books API returns (jscmd=data), without the cover.
TkBiblio ==
  {[title |-> <<"B">>, authors |-> << <<"y">>, Missing >>, publishers |-> << <<"x">> >>,
    publish_date |-> <<"1">>],
   [title |-> Missing, authors |-> <<>>, publishers |-> <<>>, publish_date |-> Missing]}

\* [a.get('name', 'N/A') for a in ...]
NamesOf(objs) == [i \in 1..Len(objs) |-> GetOr(objs[i], NA)]

\* ', '.join(...) or 'N/A'
JoinedOrNA(names) ==
  IF Truthy(Join(names, CommaSpace)) THEN Join(names, CommaSpace) ELSE NA

\* TkBookDetails without the defaults of the two new fields.
TkBookDetails_NoDefaults(doc, cleaned_isbn, day) ==
  [ISBN          |-> cleaned_isbn,
   Title         |-> GetOr(doc.title, NA),
   Author        |-> JoinedOrNA(NamesOf(doc.authors)),
   Publisher     |-> JoinedOrNA(NamesOf(doc.publishers)),
   PublishedDate |-> GetOr(doc.publish_date, NA),
   ImagePath     |-> PyNone,
   ReadStatus    |-> NA,
   DateAdded     |-> NA]

\* book_details as built from the API data.
TkBookDetails(doc, cleaned_isbn, day) ==
  [ISBN          |-> cleaned_isbn,
   Title         |-> GetOr(doc.title, NA),
   Author        |-> JoinedOrNA(NamesOf(doc.authors)),
   Publisher     |-> JoinedOrNA(NamesOf(doc.publishers)),
   PublishedDate |-> GetOr(doc.publish_date, NA),
   ImagePath     |-> PyNone,
   ReadStatus    |-> No,
   DateAdded     |-> isoformat(day)]

\* The local file name of a cover.
TkImagePath(isbn) == <<"/app/covers/">> \o isbn \o <<".jpg">>

\* Input validation and the duplicate check; then the metadata request is sent.
TkStart(raw) ==
  /\ pc = "Idle"
  /\ variant = "tk"
  /\ LET isbn_input   == Strip(raw)
         cleaned_isbn == clean_isbn("tk", Strip(raw))
     IN IF isbn_input = <<>>
        THEN /\ run' = Run("add", <<>>, <<>>, 0, "InputInvalid")
             /\ pc' = "Returned"
        ELSE IF TreeExists(tree, cleaned_isbn)
        THEN /\ run' = Run("add", cleaned_isbn, <<>>, 0, "Duplicate")
             /\ pc' = "Returned"
        ELSE /\ Len(collection) < MaxBooks
             /\ run' = Run("add", cleaned_isbn, <<"metadata">>, 0, "pending")
             /\ pc' = "FetchingMetadata"
  /\ UNCHANGED <<variant, today, collection, file, covers, tree,
                 book_details, cover_ref>>

\* The metadata request failed, or its answer has no entry for the ISBN.
TkMetadataFailed(failure) ==
  /\ pc = "FetchingMetadata"
  /\ variant = "tk"
  /\ EndRun(failure)
  /\ UNCHANGED <<variant, today, collection, file, covers, tree,
                 book_details, cover_ref>>

\* The metadata arrived: book_details is built and the user is asked.
TkMetadataParsed(doc, ref) ==
  /\ pc = "FetchingMetadata"
  /\ variant = "tk"
  /\ book_details' = TkBookDetails(doc, run.isbn, today)
  /\ cover_ref' = ref
  /\ pc' = "AwaitingUserConfirmation"
  /\ UNCHANGED <<variant, today, collection, file, covers, tree, run>>

\* collection.append(book_details), save_collection_to_file() and, when the
\* save succeeded, the refresh of the tree.
TkInsertAndPersist_Reverts(details, r, ok) ==
  /\ collection' = IF ok THEN SavedCollection("tk", Append(collection, details))
                    ELSE collection
  /\ file' \in SavedFiles("tk", Append(collection, details), ok)
  /\ tree' = update_collection_treeview(collection')
  /\ pc' = "Returned"
  /\ run' = [r EXCEPT !.writes = 1, !.result = SaveResult(ok)]

TkInsertAndPersist(details, r, ok) ==
  /\ collection' = SavedCollection("tk", Append(collection, details))
  /\ file' \in SavedFiles("tk", Append(collection, details), ok)
  /\ tree' = IF ok
             THEN update_collection_treeview(
                    SavedCollection("tk", Append(collection, details)))
             ELSE tree
  /\ pc' = "Returned"
  /\ run' = [r EXCEPT !.writes = 1, !.result = SaveResult(ok)]

\* The cover URL the handler derives: PyNone when there is none. The first
\* entry of 'covers' is compared with 0, which raises TypeError unless it is
\* a number.
TkCoverRaises(ref) ==
  ~Truthy(ref.medium) /\ ref.covers # <<>> /\ ~ref.covers[1].int

\* TkCoverUrl without the test that the cover id is positive.
TkCoverUrl_AnyId(ref) ==
  IF Truthy(ref.medium) THEN ref.medium
  ELSE IF ref.covers # <<>> /\ ref.covers[1].int
       THEN <<"http://covers/", ToString(ref.covers[1].n)>>
       ELSE PyNone

TkCoverUrl(ref) ==
  IF Truthy(ref.medium) THEN ref.medium
  ELSE IF ref.covers # <<>> /\ ref.covers[1].int /\ ref.covers[1].n > 0
       THEN <<"http://covers/", ToString(ref.covers[1].n)>>
       ELSE PyNone

\* TkCancel with the record appended before the answer is looked at.
TkCancel_Appends ==
  /\ pc = "AwaitingUserConfirmation"
  /\ collection' = Append(collection, book_details)
  /\ EndRun("Cancelled")
  /\ UNCHANGED <<variant, today, file, covers, tree, book_details, cover_ref>>

\* The user answers No.
TkCancel ==
  /\ pc = "AwaitingUserConfirmation"
  /\ EndRun("Cancelled")
  /\ UNCHANGED <<variant, today, collection, file, covers, tree,
                 book_details, cover_ref>>

\* The user answers Yes: the cover request is sent when there is a cover URL
\* and the covers directory is there (dir_ok); otherwise the record is
\* inserted at once. A TypeError ends the run in the handler's last except.
TkConfirm(dir_ok, ok) ==
  /\ pc = "AwaitingUserConfirmation"
  /\ IF TkCoverRaises(cover_ref)
     THEN /\ pc' = "Returned"
          /\ run' = [run EXCEPT !.confirmed = TRUE, !.result = "UnexpectedError"]
          /\ UNCHANGED <<collection, file, tree>>
     ELSE IF Truthy(TkCoverUrl(cover_ref)) /\ dir_ok
     THEN /\ pc' = "FetchingCover"
          /\ run' = [run EXCEPT !.confirmed = TRUE, !.reqs = Append(@, "cover")]
          /\ UNCHANGED <<collection, file, tree>>
     ELSE TkInsertAndPersist(book_details, [run EXCEPT !.confirmed = TRUE], ok)
  /\ UNCHANGED <<variant, today, covers, book_details, cover_ref>>

\* TkImagePathAfter storing the path before the request is made.
TkImagePathAfter_PathFirst(o, isbn) == TkImagePath(isbn)

\* ImagePath after the cover step: the local path once the body was written.
TkImagePathAfter(o, isbn) ==
  IF /\ ~CoverRequestFailed(o)
     /\ TkIsImage(ContentType(o))
     /\ o \notin {"OpenError", "WriteError", "StreamError"}
  THEN TkImagePath(isbn) ELSE PyNone

\* The covers directory after the cover step: nothing is removed.
TkCoversAfter(o, dir, isbn) ==
  IF CoverRequestFailed(o) \/ ~TkIsImage(ContentType(o)) \/ o = "OpenError" THEN dir
  ELSE IF o = "Image" THEN PutCover(dir, isbn, "image")
  ELSE PutCover(dir, isbn, "invalid")

\* The cover request ended; the record is inserted and the file saved.
TkCover(o, ok) ==
  /\ pc = "FetchingCover"
  /\ variant = "tk"
  /\ book_details' = [book_details EXCEPT !.ImagePath = TkImagePathAfter(o, run.isbn)]
  /\ covers' = TkCoversAfter(o, covers, run.isbn)
  /\ TkInsertAndPersist(
       [book_details EXCEPT !.ImagePath = TkImagePathAfter(o, run.isbn)],
       [run EXCEPT !.cover = o], ok)
  /\ UNCHANGED <<variant, today, cover_ref>>

\* ---- PySide: MainWindow.fetch_and_add_book_action

\* The documents the ISBN API returns, without the covers list: the author
\* references (TRUE: the reference has a 'key') and the publishers.
QtBiblio ==
  {[title |-> <<"B">>, authors |-> <<TRUE, FALSE, TRUE>>,
    publishers |-> << <<"x">>, <<"y">>, <<"x">> >>, publish_date |-> <<"1">>],
   [title |-> Missing, authors |-> <<>>, publishers |-> <<>>, publish_date |-> Missing]}

\* How the request for one author's details ends.
AuthorOutcomes ==
  {[ok |-> TRUE, name |-> <<"x">>], [ok |-> TRUE, name |-> Missing],
   [ok |-> FALSE, name |-> Missing]}

\* seq[:2]
FirstTwo(seq) == SubSeq(seq, 1, IF Len(seq) < 2 THEN Len(seq) ELSE 2)

\* QtAuthorName treating a failed request as a response without a name.
QtAuthorName_HidesFailure(has_key, outcome) ==
  IF ~has_key THEN <<"Author data format error">>
  ELSE GetOr(outcome.name, <<"Unknown Author">>)

\* The name that stands for one author reference.
QtAuthorName(has_key, outcome) ==
  IF ~has_key THEN <<"Author data format error">>
  ELSE IF outcome.ok THEN GetOr(outcome.name, <<"Unknown Author">>)
  ELSE <<"Author fetch error">>

QtAuthorNames(authors, outs) ==
  [i \in 1..Len(FirstTwo(authors)) |-> QtAuthorName(authors[i], outs[i])]

\* One request per author reference that has a key.
RECURSIVE QtAuthorRequests(_)
QtAuthorRequests(authors) ==
  IF authors = <<>> THEN <<>>
  ELSE (IF Head(authors) THEN <<"author">> ELSE <<>>)
         \o QtAuthorRequests(Tail(authors))

\* details as fetch_book_details_openlibrary returns it (without cover_id).
QtBookDetails(doc, isbn, outs) ==
  [ISBN          |-> isbn,
   Title         |-> GetOr(doc.title, NA),
   Author        |-> IF doc.authors # <<>>
                     THEN Join(QtAuthorNames(doc.authors, outs), CommaSpace)
                     ELSE NA,
   Publisher     |-> IF doc.publishers # <<>>
                     THEN Join(FirstTwo(doc.publishers), CommaSpace) ELSE NA,
   PublishedDate |-> GetOr(doc.publish_date, NA),
   ImagePath     |-> <<>>,
   ReadStatus    |-> <<>>,
   DateAdded     |-> <<>>]

\* The covers lists a document can carry.
QtCoverLists ==
  {<<>>, <<JInt(5)>>, <<JInt(-1), JInt(5)>>, <<JInt(0)>>, <<JInt(-1)>>,
   <<JInt(-2)>>, <<JNull>>}

\* details["cover_id"]: the first positive id, else the first entry when it is
\* an integer other than -1; 0 stands for "no cover_id".
QtCoverId(cs) ==
  IF \E i \in 1..Len(cs) : cs[i].int /\ cs[i].n > 0
  THEN cs[CHOOSE i \in 1..Len(cs) :
            /\ cs[i].int /\ cs[i].n > 0
            /\ \A j \in 1..(i - 1) : ~(cs[j].int /\ cs[j].n > 0)].n
  ELSE IF cs # <<>> /\ cs[1].int /\ cs[1].n # -1 THEN cs[1].n
  ELSE 0

QtImagePath(isbn) == <<"covers/">> \o isbn \o <<".jpg">>

\* Input validation and the duplicate check; then the metadata request is sent.
QtStart(raw) ==
  /\ pc = "Idle"
  /\ variant = "qt"
  /\ LET isbn == clean_isbn("qt", raw)
     IN IF isbn = <<>>
        THEN /\ run' = Run("add", <<>>, <<>>, 0, "InputInvalid")
             /\ pc' = "Returned"
        ELSE IF isbn \in ISBNs(collection)
        THEN /\ run' = Run("add", isbn, <<>>, 0, "Duplicate")
             /\ pc' = "Returned"
        ELSE /\ run' = Run("add", isbn, <<"metadata">>, 0, "pending")
             /\ pc' = "FetchingMetadata"
  /\ UNCHANGED <<variant, today, collection, file, covers, tree, book_details,
                 cover_ref>>

\* fetch_book_details_openlibrary returned None.
QtMetadataFailed(failure) ==
  /\ pc = "FetchingMetadata"
  /\ variant = "qt"
  /\ EndRun(failure)
  /\ UNCHANGED <<variant, today, collection, file, covers, tree, book_details,
                 cover_ref>>

\* fetch_book_details_openlibrary returned details. With a cover_id the cover
\* request is sent; without one the handler goes on to build the text of the
\* confirmation dialog, which reads the undefined name `details`: NameError.
QtMetadataParsed(doc, cs, outs) ==
  /\ pc = "FetchingMetadata"
  /\ variant = "qt"
  /\ book_details' = QtBookDetails(doc, run.isbn, outs)
  /\ cover_ref' = [medium |-> PyNone, covers |-> cs]
  /\ IF QtCoverId(cs) # 0
     THEN /\ pc' = "FetchingCover"
          /\ run' = [run EXCEPT
                       !.reqs = @ \o QtAuthorRequests(FirstTwo(doc.authors)) \o <<"cover">>]
     ELSE /\ pc' = "Returned"
          /\ run' = [run EXCEPT
                       !.reqs = @ \o QtAuthorRequests(FirstTwo(doc.authors)),
                       !.result = "NameError"]
  /\ UNCHANGED <<variant, today, collection, file, covers, tree>>

\* download_cover_image: the path it returns ("" for no image).
QtImagePathAfter(o, isbn) ==
  IF ~CoverRequestFailed(o) /\ QtIsImage(ContentType(o)) /\ o = "Image"
  THEN QtImagePath(isbn) ELSE <<>>

\* download_cover_image: the covers directory it leaves. A failed request or a
\* broken stream removes the file; a corrupt image is removed unless os.remove
\* fails (removed is FALSE).
QtCoversAfter(o, dir, isbn, removed) ==
  IF ~CoverRequestFailed(o) /\ ~QtIsImage(ContentType(o)) THEN dir
  ELSE IF o = "Image" THEN PutCover(dir, isbn, "image")
  ELSE IF o = "WriteError" THEN PutCover(dir, isbn, "invalid")
  ELSE IF o = "Corrupt"
       THEN IF removed THEN RemoveCover(dir, isbn) ELSE PutCover(dir, isbn, "invalid")
  ELSE IF CoverRequestFailed(o) \/ o = "StreamError"
       THEN IF removed THEN RemoveCover(dir, isbn)
            ELSE IF o = "StreamError" THEN PutCover(dir, isbn, "invalid") ELSE dir
  ELSE dir

\* The cover request ended. An IOError of open() or write() is not caught and
\* ends the handler; otherwise the handler goes on to the NameError.
QtCover(o, removed) ==
  /\ pc = "FetchingCover"
  /\ variant = "qt"
  /\ covers' = QtCoversAfter(o, covers, run.isbn, removed)
  /\ book_details' = IF o \in {"OpenError", "WriteError"} THEN book_details
                     ELSE [book_details EXCEPT !.ImagePath = QtImagePathAfter(o, run.isbn)]
  /\ pc' = "Returned"
  /\ run' = [run EXCEPT
               !.cover = o,
               !.result = IF o \in {"OpenError", "WriteError"} THEN "IOError"
                          ELSE "NameError"]
  /\ UNCHANGED <<variant, today, collection, file, tree, cover_ref>>

\* Here the application restarts on the file it wrote itself, which reads
\* without an error; LoadSpec has the files it can find and the reads that raise.
Next ==
  \/ Return
  \/ Restart(0)
  \/ manual_save_collection
  \/ \E item \in ListItems, new_status \in {Yes, No} :
       toggle_read_status(item, new_status)
  \/ \E raw \in RawInputs : TkStart(raw)
  \/ \E failure \in MetadataFailures \cup {"UnexpectedError"} : TkMetadataFailed(failure)
  \/ \E doc \in TkBiblio, ref \in CoverRefs : TkMetadataParsed(doc, ref)
  \/ TkCancel
  \/ \E dir_ok \in BOOLEAN, ok \in BOOLEAN : TkConfirm(dir_ok, ok)
  \/ \E o \in CoverOutcomes, ok \in BOOLEAN : TkCover(o, ok)
  \/ \E raw \in RawInputs : QtStart(raw)
  \/ \E failure \in MetadataFailures : QtMetadataFailed(failure)
  \/ \E doc \in QtBiblio, cs \in QtCoverLists, outs \in [1..2 -> AuthorOutcomes] :
       QtMetadataParsed(doc, cs, outs)
  \/ \E o \in CoverOutcomes, removed \in BOOLEAN : QtCover(o, removed)

Spec == Init /\ [][Next]_vars

\* ------------------------------------------------- clean_isbn on its own

\* The three copies of clean_isbn: Tkinter, PySide, demo generator.
Copies == {"tk", "qt", "demo"}

CleanChars == {"1", "-", " ", "\t", "\n"}

Example1 == <<"9", "7", "8", "-", "0", "-", "1", "3", "-", "4", "6", "8", "5",
              "9", "9", "-", "1">>
Example2 == <<" ", "9", "7", "8", "0", "1", "3", "4", "6", "8", "5", "9", "9",
              "1", " ">>
Example  == <<"9", "7", "8", "0", "1", "3", "4", "6", "8", "5", "9", "9", "1">>

CleanInputs ==
  {Example1, Example2, Example}
    \cup UNION {[1..n -> CleanChars] : n \in 0..MaxCleanLen}

\* A call of clean_isbn: its argument, the result of each copy, and the
\* result of each copy applied to its own result.
CleanCall(arg, result, again) ==
  [op |-> "clean_isbn", arg |-> arg, result |-> result, again |-> again]

CleanInit ==
  /\ variant = "tk"
  /\ today = 1
  /\ collection = <<>>
  /\ file = NoFile
  /\ tree = {}
  /\ covers = {}
  /\ pc = "Idle"
  /\ run \in {CleanCall(s, PyNone, PyNone) : s \in CleanInputs}
  /\ book_details = NoDetails
  /\ cover_ref = NoCoverRef

\* Every copy is applied to the argument.
Clean ==
  /\ pc = "Idle"
  /\ pc' = "Cleaned"
  /\ run' = [run EXCEPT !.result = [v \in Copies |-> clean_isbn(v, run.arg)]]
  /\ UNCHANGED <<variant, today, collection, file, covers, tree, book_details,
                 cover_ref>>

\* Every copy is applied to its own result.
CleanAgain ==
  /\ pc = "Cleaned"
  /\ pc' = "CleanedAgain"
  /\ run' = [run EXCEPT !.again = [v \in Copies |-> clean_isbn(v, run.result[v])]]
  /\ UNCHANGED <<variant, today, collection, file, covers, tree, book_details,
                 cover_ref>>

CleanNext == Clean \/ CleanAgain

CleanSpec == CleanInit /\ [][CleanNext]_vars

\* ------------------------------------------- loading a file found on disk

\* The backing file is the user's: it may come from an older version or from
\* an editor. Its header may lack a column, a row may be short, blank, without
\* an ISBN, or hold an ISBN as printed on the book.
WithoutColumn(hdr, name) == SelectSeq(hdr, LAMBDA h : h # name)

FoundHeaders(v) ==
  {FIELDNAMES(v), WithoutColumn(FIELDNAMES(v), "ReadStatus"),
   WithoutColumn(FIELDNAMES(v), "ISBN")}

FoundBooks ==
  {OldBook(<<"1">>, <<"B">>, <<"y">>, Yes),
   OldBook(<<"1", "-", "1">>, <<"a">>, <<"x">>, Yes),
   OldBook(<<>>, <<"a">>, <<"y">>, No)}

CellsOf(hdr, book) == [j \in 1..Len(hdr) |-> WriteCell(book[hdr[j]])]

FoundRows(hdr) ==
  {CellsOf(hdr, b) : b \in FoundBooks}
    \cup {SubSeq(CellsOf(hdr, b), 1, 2) : b \in FoundBooks}
    \cup {<<>>}

FilesWith(hdr) ==
  {CsvFile(hdr, rows) :
     rows \in UNION {[1..n -> FoundRows(hdr)] : n \in 0..MaxFileRows}}

FoundFiles(v) ==
  {NoFile, CsvFile(<<>>, <<>>)}
    \cup UNION {FilesWith(hdr) : hdr \in FoundHeaders(v)}

\* The application is about to start on a file it finds.
LoadInit ==
  /\ variant \in {"tk", "qt"}
  /\ today = 1
  /\ file \in FoundFiles(variant)
  /\ collection = <<>>
  /\ tree = {}
  /\ covers = {}
  /\ pc = "Idle"
  /\ run = NoRun
  /\ book_details = NoDetails
  /\ cover_ref = NoCoverRef

LoadNext ==
  \/ \E err \in {0} \cup ReadErrors(file) : Restart(err)
  \/ Return

LoadSpec == LoadInit /\ [][LoadNext]_vars

\* ======================================================= demo generator
\* demo_generator.py fetches five sample books, downloads their covers and
\* writes library_collection.csv, the file the PySide application opens.
\* While it runs variant is "demo", collection is its collection_data and
\* book_details its book_entry.

SAMPLE_ISBNS ==
  << <<"9780590353427">>, <<"9780261102384">>, <<"9780743273565">>,
     <<"9780140283334">>, <<"9781984801958">> >>

\* str(author_ref) of an author reference without a 'key'.
StrOfRef == <<"{}">>

\* The name that stands for one author reference in the demo generator.
DemoAuthorName(has_key, outcome) ==
  IF ~has_key THEN StrOfRef
  ELSE IF outcome.ok THEN GetOr(outcome.name, <<"Unknown Author">>)
  ELSE <<"Author fetch error">>

DemoAuthorNames(authors, outs) ==
  [i \in 1..Len(FirstTwo(authors)) |-> DemoAuthorName(authors[i], outs[i])]

\* details as the demo generator's fetch_book_details_openlibrary returns it
\* (without cover_id) for a document that has none of isbn_10, isbn_13,
\* number_of_pages, pagination, subjects, description and key.
DemoBookDetails(doc, isbn, outs) ==
  [isbn_13        |-> isbn,
   title          |-> GetOr(doc.title, NA),
   authors        |-> IF DemoAuthorNames(doc.authors, outs) # <<>>
                      THEN Join(DemoAuthorNames(doc.authors, outs), CommaSpace)
                      ELSE NA,
   publisher      |-> IF doc.publishers # <<>>
                      THEN Join(FirstTwo(doc.publishers), CommaSpace) ELSE NA,
   published_date |-> GetOr(doc.publish_date, NA),
   isbn_10        |-> Missing,
   page_count     |-> NA,
   categories     |-> <<>>,
   description    |-> <<>>,
   openlibrary_id |-> Missing,
   info_link      |-> <<"https://openlibrary.org/isbn/">> \o isbn]

\* details["cover_id"]; 0 stands for "no cover_id".
DemoCoverId(cs) == QtCoverId(cs)

\* datetime.now().strftime("%Y-%m-%d %H:%M:%S")
strftime(d) == <<"day", ToString(d), " 00:00:00">>

\* The closing loop of book_entry: an empty or "N/A" field becomes "0" for
\* the two rating fields and "N/A" for every field that may not stay empty.
FillField(field, value) ==
  IF value # <<>> /\ value # NA THEN value
  ELSE IF field \in {"average_rating", "ratings_count"} THEN <<"0">>
  ELSE IF field \notin {"tags", "notes", "illustrators", "translators",
                        "editors", "goodreads_id", "librarything_id"}
       THEN NA
  ELSE value

\* book_entry before the closing loop.
RawBookEntry(details, isbn, path, now) ==
  [field \in Range(FIELDNAMES("demo")) |->
     CASE field = "id"               -> isbn
       [] field = "title"            -> GetOr(details.title, NA)
       [] field = "authors"          -> GetOr(details.authors, NA)
       [] field = "publisher"        -> GetOr(details.publisher, NA)
       [] field = "published_date"   -> GetOr(details.published_date, NA)
       [] field = "description"      -> GetOr(details.description, <<>>)
       [] field = "isbn_13"          -> GetOr(details.isbn_13, isbn)
       [] field = "isbn_10"          -> GetOr(details.isbn_10, <<>>)
       [] field = "page_count"       -> Str(GetOr(details.page_count, NA))
       [] field = "categories"       -> GetOr(details.categories, <<>>)
       [] field = "info_link"        -> GetOr(details.info_link, <<>>)
       [] field = "openlibrary_id"   -> GetOr(details.openlibrary_id, <<>>)
       [] field = "cover_image_path" -> path
       [] field = "date_added"       -> now
       [] field = "date_modified"    -> now
       [] field = "read_status"      -> No
       [] OTHER                      -> <<>>]

\* book_entry as it is appended to collection_data.
BookEntry(details, isbn, path, now) ==
  [field \in Range(FIELDNAMES("demo")) |->
     FillField(field, RawBookEntry(details, isbn, path, now)[field])]

\* relative_image_path
DemoImagePath(isbn) == <<"covers/">> \o clean_isbn("demo", isbn) \o <<".jpg">>

\* The documents and covers lists the ISBN API returns to the generator.
DemoBiblio == {d \in QtBiblio : d.authors # <<>>}

DemoCoverLists == {<<>>, <<JInt(5)>>, <<JInt(-1)>>}

DemoOuts == [ok |-> TRUE, name |-> <<"x">>]

\* The generator is started: ensure_covers_dir, then the first lookup.
DemoStart(dir_ok) ==
  /\ pc = "Idle"
  /\ variant = "demo"
  /\ IF dir_ok
     THEN /\ pc' = "FetchingMetadata"
          /\ run' = [Run("demo", clean_isbn("demo", SAMPLE_ISBNS[1]),
                         <<"metadata">>, 0, "pending") EXCEPT !.index = 1]
     ELSE /\ pc' = "Finished"
          /\ run' = Run("demo", <<>>, <<>>, 0, "NoCoversDir")
  /\ UNCHANGED <<variant, today, collection, file, covers, tree, book_details,
                 cover_ref>>

\* fetch_book_details_openlibrary returned None: the entry is skipped.
DemoMetadataFailed(failure) ==
  /\ pc = "FetchingMetadata"
  /\ variant = "demo"
  /\ pc' = "BookDone"
  /\ run' = [run EXCEPT !.result = failure]
  /\ UNCHANGED <<variant, today, collection, file, covers, tree, book_details,
                 cover_ref>>

\* The entry of the current book is appended with the cover path found.
DemoAppend(details, path, r) ==
  /\ book_details' = BookEntry(details, r.isbn, path, strftime(today))
  /\ collection' = Append(collection, BookEntry(details, r.isbn, path, strftime(today)))
  /\ pc' = "BookDone"
  /\ run' = [r EXCEPT !.result = "Added"]

\* The lookup returned details; the large rendition of the cover is
\* requested when there is a cover id.
DemoMetadataParsed(doc, cs) ==
  /\ pc = "FetchingMetadata"
  /\ variant = "demo"
  /\ cover_ref' = [medium |-> PyNone, covers |-> cs]
  /\ IF DemoCoverId(cs) # 0
     THEN /\ pc' = "FetchingCover"
          /\ book_details' = DemoBookDetails(doc, run.isbn, <<DemoOuts, DemoOuts>>)
          /\ run' = [run EXCEPT
                       !.reqs = @ \o QtAuthorRequests(FirstTwo(doc.authors))
                                  \o <<"cover-L">>]
          /\ UNCHANGED collection
     ELSE DemoAppend(DemoBookDetails(doc, run.isbn, <<DemoOuts, DemoOuts>>), <<>>,
                     [run EXCEPT
                        !.reqs = @ \o QtAuthorRequests(FirstTwo(doc.authors))])
  /\ UNCHANGED <<variant, today, file, covers, tree>>

\* download_cover_image: the covers directory it leaves after the response
\* it writes, or after the request that failed.
DemoCoversAfter(o, dir, isbn, removed) ==
  IF ~CoverRequestFailed(o) /\ ~QtIsImage(ContentType(o)) THEN dir
  ELSE IF o = "Image" THEN PutCover(dir, isbn, "image")
  ELSE IF o = "WriteError" THEN PutCover(dir, isbn, "invalid")
  ELSE IF o = "OpenError" THEN dir
  ELSE IF removed THEN RemoveCover(dir, isbn)
  ELSE IF o \in {"Corrupt", "StreamError"} THEN PutCover(dir, isbn, "invalid")
  ELSE dir

\* download_cover_image once a response is in that is an image, or the
\* request failed: the path is returned, or the IOError of open() and write()
\* ends the script.
DemoCoverEnds(o, removed) ==
  /\ covers' = DemoCoversAfter(o, covers, run.isbn, removed)
  /\ IF o \in {"OpenError", "WriteError"}
     THEN /\ pc' = "Finished"
          /\ run' = [run EXCEPT !.cover = o, !.result = "IOError"]
          /\ UNCHANGED <<collection, book_details>>
     ELSE DemoAppend(book_details,
                     IF o = "Image" THEN DemoImagePath(run.isbn) ELSE <<>>,
                     [run EXCEPT !.cover = o])

\* The request for the large rendition ended. Only a response that is not an
\* image makes the generator request the medium rendition.
DemoCoverL(o, removed) ==
  /\ pc = "FetchingCover"
  /\ variant = "demo"
  /\ IF ~CoverRequestFailed(o) /\ ~QtIsImage(ContentType(o))
     THEN /\ pc' = "FetchingCoverM"
          /\ run' = [run EXCEPT !.cover = o, !.reqs = Append(@, "cover-M")]
          /\ UNCHANGED <<collection, covers, book_details>>
     ELSE DemoCoverEnds(o, removed)
  /\ UNCHANGED <<variant, today, file, tree, cover_ref>>

\* The request for the medium rendition ended.
DemoCoverM(o, removed) ==
  /\ pc = "FetchingCoverM"
  /\ variant = "demo"
  /\ IF ~CoverRequestFailed(o) /\ ~QtIsImage(ContentType(o))
     THEN /\ DemoAppend(book_details, <<>>, [run EXCEPT !.cover = o])
          /\ UNCHANGED covers
     ELSE DemoCoverEnds(o, removed)
  /\ UNCHANGED <<variant, today, file, tree, cover_ref>>

\* The loop goes on to the next sample ISBN.
DemoNextBook ==
  /\ pc = "BookDone"
  /\ variant = "demo"
  /\ run.index < Len(SAMPLE_ISBNS)
  /\ pc' = "FetchingMetadata"
  /\ run' = [run EXCEPT !.index = @ + 1,
                        !.isbn = clean_isbn("demo", SAMPLE_ISBNS[run.index + 1]),
                        !.reqs = <<"metadata">>,
                        !.cover = "none",
                        !.result = "pending"]
  /\ book_details' = NoDetails
  /\ cover_ref' = NoCoverRef
  /\ UNCHANGED <<variant, today, collection, file, covers, tree>>

\* After the last ISBN the CSV file is written, unless nothing was fetched.
DemoWrite(ok) ==
  /\ pc = "BookDone"
  /\ variant = "demo"
  /\ run.index = Len(SAMPLE_ISBNS)
  /\ pc' = "Finished"
  /\ IF collection = <<>>
     THEN /\ file' = file
          /\ run' = [run EXCEPT !.result = "NothingFetched"]
     ELSE /\ file' \in (IF ok THEN {WrittenFile("demo", collection)}
                        ELSE FailedWrites("demo", file, collection))
          /\ run' = [run EXCEPT !.writes = 1, !.result = SaveResult(ok)]
  /\ UNCHANGED <<variant, today, collection, covers, tree, book_details,
                 cover_ref>>

\* The PySide application is started in the generator's directory: it loads
\* library_collection.csv. The run keeps collection_data in before and the
\* file it opened in disk.
PySideOpens ==
  /\ pc = "Finished"
  /\ variant = "demo"
  /\ variant' = "qt"
  /\ Loaded("qt", file, 0, collection', file', tree')
  /\ pc' = "Returned"
  /\ run' = Run("load", <<>>, <<>>, 0, LoadResult("qt", file, file', 0))
  /\ book_details' = NoDetails
  /\ cover_ref' = NoCoverRef
  /\ UNCHANGED <<today, covers>>

DemoInit ==
  /\ variant = "demo"
  /\ today \in 1..MaxDay
  /\ collection = <<>>
  /\ file \in {NoFile, WrittenFile("qt", <<OldBook(<<"1">>, <<"a">>, <<"x">>, Yes)>>)}
  /\ tree = {}
  /\ covers = {}
  /\ pc = "Idle"
  /\ run = NoRun
  /\ book_details = NoDetails
  /\ cover_ref = NoCoverRef

DemoNext ==
  \/ \E dir_ok \in BOOLEAN : DemoStart(dir_ok)
  \/ \E failure \in MetadataFailures : DemoMetadataFailed(failure)
  \/ \E doc \in DemoBiblio, cs \in DemoCoverLists : DemoMetadataParsed(doc, cs)
  \/ \E o \in CoverOutcomes, removed \in BOOLEAN : DemoCoverL(o, removed)
  \/ \E o \in CoverOutcomes, removed \in BOOLEAN : DemoCoverM(o, removed)
  \/ DemoNextBook
  \/ \E ok \in BOOLEAN : DemoWrite(ok)
  \/ PySideOpens
  \/ Return

DemoSpec == DemoInit /\ [][DemoNext]_vars

\* ===================================================== author resolution
\* fetch_book_details_openlibrary on its own, in its PySide copy ("qt") and
\* its demo-generator copy ("demo"), over the author references of the
\* document and the ways the author requests end.

\* Longest authors list of a document.
MaxAuthors == 3

AuthorLists ==
  UNION {[1..n -> BOOLEAN] : n \in 0..MaxAuthors}

LookupCall(doc, outs) ==
  [op |-> "lookup", isbn |-> <<"1">>, doc |-> doc, outs |-> outs,
   result |-> "pending"]

LookupInit ==
  /\ variant \in {"qt", "demo"}
  /\ today = 1
  /\ collection = <<>>
  /\ file = NoFile
  /\ tree = {}
  /\ covers = {}
  /\ pc = "FetchingMetadata"
  /\ run \in {LookupCall([title |-> <<"B">>, authors |-> a, publishers |-> <<>>,
                          publish_date |-> Missing], outs) :
                 a \in AuthorLists, outs \in [1..2 -> AuthorOutcomes]}
  /\ book_details = NoDetails
  /\ cover_ref = NoCoverRef

\* The ISBN request fails: the function returns None.
LookupFails(failure) ==
  /\ pc = "FetchingMetadata"
  /\ pc' = "Returned"
  /\ run' = [run EXCEPT !.result = failure]
  /\ UNCHANGED <<variant, today, collection, file, covers, tree, book_details,
                 cover_ref>>

\* The ISBN request succeeds: the authors are resolved and details returned.
LookupParses ==
  /\ pc = "FetchingMetadata"
  /\ pc' = "Returned"
  /\ run' = [run EXCEPT !.result = "Parsed"]
  /\ book_details' = IF variant = "qt"
                     THEN QtBookDetails(run.doc, run.isbn, run.outs)
                     ELSE DemoBookDetails(run.doc, run.isbn, run.outs)
  /\ UNCHANGED <<variant, today, collection, file, covers, tree, cover_ref>>

LookupNext ==
  \/ \E failure \in MetadataFailures : LookupFails(failure)
  \/ LookupParses

LookupSpec == LookupInit /\ [][LookupNext]_vars

\* ================================================================ claims

\* c without its i-th record.
RemoveAt(c, i) == SubSeq(c, 1, i - 1) \o SubSeq(c, i + 1, Len(c))

\* An add-book run has ended.
AddReturned == pc = "Returned" /\ run.op = "add"

\* The run inserted exactly one record: position i of the collection holds a
\* record that was not there, and the others are the records from before the
\* run, in their order.
InsertedAt(i) ==
  /\ i \in 1..Len(collection)
  /\ collection[i].ISBN = run.isbn
  /\ RemoveAt(collection, i) = run.before

\* C1: no two records of the in-memory collection have the same ISBN, in
\* every state either application reaches from a start file whose ISBNs are
\* pairwise distinct.
C1_UniqueIsbn ==
  \A i, j \in 1..Len(collection) :
    i # j => collection[i].ISBN # collection[j].ISBN

\* C2: an add-book whose cleaned ISBN is the ISBN of a record of the
\* collection ends as a duplicate without a request, without a write and
\* with the collection unchanged.
C2_DuplicateRejected ==
  (run.op = "add" /\ run.isbn \in ISBNs(run.before)) =>
    /\ pc = "Returned"
    /\ run.result = "Duplicate"
    /\ run.reqs = <<>>
    /\ run.writes = 0
    /\ collection = run.before
    /\ file = run.disk

\* C3: an add-book that ends because the metadata lookup failed (not found,
\* HTTP error, connection failure, timeout, unparseable body) or because the
\* user answered No leaves the collection as it was before the run, record
\* for record, and has written nothing to the backing file.
C3_FailedAddChangesNothing ==
  (AddReturned /\ run.result \in MetadataFailures \cup {"Cancelled"}) =>
    /\ collection = run.before
    /\ file = run.disk
    /\ run.writes = 0

C3_Witness ==
  /\ AddReturned
  /\ run.result = "Cancelled"
  /\ run.before # <<>>

\* A record with a key and all eight fields; ImagePath may be empty or absent.
WellFormed(book) ==
  /\ Truthy(book.ISBN)
  /\ \A f \in Fields \ {"ImagePath"} : book[f] # PyNone

\* C4: after a successful save of a collection of well-formed records, a load
\* of the file yields the same set of records.
C4_RoundTrip ==
  (/\ pc = "Returned"
   /\ run.writes = 1
   /\ run.result = "Done"
   /\ \A i \in 1..Len(collection) : WellFormed(collection[i])) =>
    Range(Load(variant, file)) = Range(collection)

C4_Witness ==
  /\ pc = "Returned"
  /\ run.writes = 1
  /\ run.result = "Done"
  /\ Len(collection) = 2
  /\ \E i, j \in 1..2 :
       /\ ~Truthy(collection[i].ImagePath)
       /\ Truthy(collection[j].ImagePath)

LowerTitle(book)  == Lower(Str(book.Title))
LowerAuthor(book) == Lower(Str(book.Author))

\* C5: when no handler is in the middle of its work, adjacent records are
\* non-decreasing by lower-cased Title, and in PySide records with the same
\* lower-cased Title are non-decreasing by lower-cased Author.
C5_Sorted ==
  pc \in {"Idle", "Returned"} =>
    \A i \in 1..(Len(collection) - 1) :
      /\ ~StrLess(LowerTitle(collection[i + 1]), LowerTitle(collection[i]))
      /\ (variant = "qt" /\ LowerTitle(collection[i + 1]) = LowerTitle(collection[i]))
           => ~StrLess(LowerAuthor(collection[i + 1]), LowerAuthor(collection[i]))

\* An add-book whose save failed has put its record in front of an older one.
C5_Witness ==
  /\ AddReturned
  /\ run.result = "PersistenceError"
  /\ Len(collection) = 2
  /\ InsertedAt(1)

\* C6: a confirmed add-book whose cover request ended in HTTP 404 has
\* inserted one record, without an image path, and has tried to save it; when
\* the save succeeded the file holds the collection. (PySide: the path that
\* download_cover_image returned is empty.)
C6_Cover404Degrades ==
  /\ (AddReturned /\ run.confirmed /\ run.cover = "HTTP404") =>
       /\ \E i \in 1..Len(collection) :
            InsertedAt(i) /\ ~Truthy(collection[i].ImagePath)
       /\ run.writes = 1
       /\ run.result \in {"Done", "PersistenceError"}
       /\ run.result = "Done" => Load(variant, file) = collection
  /\ (AddReturned /\ variant = "qt" /\ run.cover = "HTTP404") =>
       ~Truthy(book_details.ImagePath)

C6_Witness ==
  /\ AddReturned
  /\ run.confirmed
  /\ run.cover = "HTTP404"
  /\ run.result = "Done"
  /\ run.before # <<>>

\* C7: a confirmed add-book inserts its record whatever the cover reference
\* of the metadata and whatever the outcome of the cover step.
C7_CoverNeverAborts ==
  (AddReturned /\ run.confirmed) =>
    /\ run.result \in {"Done", "PersistenceError"}
    /\ \E i \in 1..Len(collection) : InsertedAt(i)

\* C8: a confirmed add-book whose metadata carried no cover reference has
\* issued no cover request and added exactly one record: the cleaned ISBN
\* (no hyphen, no space), ReadStatus "No", no image path, DateAdded today.
C8_AddWithoutCover ==
  (AddReturned /\ run.confirmed /\ cover_ref = NoCoverRef) =>
    /\ run.reqs = <<"metadata">>
    /\ \E i \in 1..Len(collection) :
         /\ InsertedAt(i)
         /\ \A k \in 1..Len(collection[i].ISBN) : collection[i].ISBN[k] \notin {"-", " "}
         /\ collection[i].ReadStatus = No
         /\ ~Truthy(collection[i].ImagePath)
         /\ collection[i].DateAdded = isoformat(today)

C8_Witness ==
  /\ AddReturned
  /\ run.confirmed
  /\ cover_ref = NoCoverRef
  /\ run.result = "Done"
  /\ run.before # <<>>

ToggleReturned == pc = "Returned" /\ run.op = "toggle"

\* C9: a toggle that requests the stored status changes nothing and attempts
\* no write; a toggle that requests the other status stores it and attempts
\* exactly one write.
C9_ToggleIdempotent ==
  ToggleReturned =>
    IF run.before[run.index].ReadStatus = run.new_status
    THEN collection = run.before /\ file = run.disk /\ run.writes = 0
    ELSE collection[run.index].ReadStatus = run.new_status /\ run.writes = 1

C9_Witness ==
  /\ ToggleReturned
  /\ run.before[run.index].ReadStatus = run.new_status
  /\ file.exists

\* C10: a toggle changes nothing but the ReadStatus of the record of the
\* selected ISBN: the number of records, every other record and every other
\* field of that record, DateAdded among them, are as before.
C10_ToggleFrame ==
  ToggleReturned =>
    /\ Len(collection) = Len(run.before)
    /\ run.before[run.index].ISBN = run.isbn
    /\ \A i \in 1..Len(collection) : \A f \in Fields :
         (i # run.index \/ f # "ReadStatus") => collection[i][f] = run.before[i][f]

C10_Witness ==
  /\ ToggleReturned
  /\ run.writes = 1
  /\ Len(collection) = 2
  /\ collection[run.index].ReadStatus # run.before[run.index].ReadStatus

\* A load has ended; the reader did not raise.
LoadReturned == pc = "Returned" /\ run.op = "load"

\* The value a row of the file f has in the column name: PyNone when the
\* header lacks the column or the row is too short to reach it.
CellAt(f, k, name) ==
  IF ColumnOf(f.hdr, name) \in 1..Len(f.rows[k])
  THEN f.rows[k][ColumnOf(f.hdr, name)] ELSE PyNone

\* The rows of f that have an ISBN.
KeyedRows(f) == {k \in 1..Len(f.rows) : Truthy(CellAt(f, k, "ISBN"))}

\* C11: a row with an ISBN and no ReadStatus value (no such column, or a
\* short row) is loaded as a record with ReadStatus "No" whose other missing
\* fields (Title, Author, Publisher, PublishedDate, DateAdded) are "N/A".
C11_LoadDefaults ==
  (LoadReturned /\ run.index = 0) =>
    \A k \in KeyedRows(run.disk) :
      CellAt(run.disk, k, "ReadStatus") = PyNone =>
        \E i \in 1..Len(collection) :
          /\ collection[i].ISBN = CellAt(run.disk, k, "ISBN")
          /\ collection[i].ReadStatus = No
          /\ \A f \in {"Title", "Author", "Publisher", "PublishedDate", "DateAdded"} :
               CellAt(run.disk, k, f) = PyNone => collection[i][f] = NA

\* C12: after a load every record has a non-empty ISBN, and the collection
\* has one record for each row of the file that has an ISBN.
C12_KeylessRowsSkipped ==
  (LoadReturned /\ run.index = 0) =>
    /\ \A i \in 1..Len(collection) : Truthy(collection[i].ISBN)
    /\ Len(collection) = Cardinality(KeyedRows(run.disk))

C20_IsbnsNormalized ==
  \A i \in 1..Len(collection) :
    \A k \in 1..Len(collection[i].ISBN) : collection[i].ISBN[k] \notin {"-", " "}

\* The cell csv writes for a field of a record (None as the empty string).
Written(x) == IF x = PyNone THEN <<>> ELSE x

\* C14: an add-book that inserted a record and a toggle that changed a status
\* have attempted a persist when they return; after a successful persist the
\* file is a header of the eight canonical field names and then one row for
\* each record of the collection, in the collection's sorted order, and
\* nothing else.
C14_PersistMirrors ==
  /\ (AddReturned /\ Len(collection) > Len(run.before)) => run.writes = 1
  /\ (ToggleReturned /\ collection # run.before) => run.writes = 1
  /\ (pc = "Returned" /\ run.writes = 1 /\ run.result = "Done") =>
       /\ file.exists
       /\ Len(file.hdr) = 8
       /\ Range(file.hdr) = Fields
       /\ Len(file.rows) = Len(collection)
       /\ \A i \in 1..Len(collection) :
            /\ Len(file.rows[i]) = 8
            /\ \A j \in 1..8 : file.rows[i][j] = Written(collection[i][file.hdr[j]])
       /\ \A i \in 1..(Len(collection) - 1) :
            ~StrLess(LowerTitle(collection[i + 1]), LowerTitle(collection[i]))

\* A toggle rewrote a file of two rows.
C14_Witness ==
  /\ ToggleReturned
  /\ run.result = "Done"
  /\ Len(run.disk.rows) = 2
  /\ file # run.disk

\* C15: an operation whose persist failed has made that one write attempt and
\* no other, has reported the failure and returned; the status a toggle set
\* and the record a Tkinter add-book appended are still in the collection.
C15_FailedPersistKept ==
  (pc = "Returned" /\ run.result = "PersistenceError") =>
    /\ run.writes = 1
    /\ run.op = "toggle" =>
         /\ collection[run.index].ReadStatus = run.new_status
         /\ run.before[run.index].ReadStatus # run.new_status
    /\ (run.op = "add" /\ variant = "tk") => \E i \in 1..Len(collection) : InsertedAt(i)
    /\ run.op = "save" => Range(collection) = Range(run.before)

C15_Witness ==
  /\ AddReturned
  /\ variant = "tk"
  /\ run.result = "PersistenceError"
  /\ run.before # <<>>

\* C16: add-book issues no cover request and writes no cover file before the
\* user has confirmed; a run that ends in Cancelled has issued none.
C16_StepOrder ==
  run.op = "add" =>
    /\ ("cover" \in Range(run.reqs) \/ run.cover # "none") => run.confirmed
    /\ run.result = "Cancelled" => "cover" \notin Range(run.reqs)

\* C17: an add-book whose normalized ISBN is empty is rejected as invalid
\* input: it issues no request and leaves collection and file as they were.
C17_EmptyIsbnInvalid ==
  (run.op = "add" /\ run.isbn = <<>>) =>
    /\ pc = "Returned"
    /\ run.result = "InputInvalid"
    /\ run.reqs = <<>>
    /\ run.writes = 0
    /\ collection = run.before
    /\ file = run.disk

\* s has neither a hyphen nor a whitespace character.
IsClean(s) == \A k \in 1..Len(s) : s[k] \notin {"-", " ", "\t", "\n", "\r"}

\* C18: each copy of clean_isbn is idempotent, returns an already clean
\* string unchanged, and maps "978-0-13-468599-1" and " 9780134685991 " to
\* "9780134685991".
C18_CleanIdempotent ==
  /\ pc = "CleanedAgain" => \A v \in Copies : run.again[v] = run.result[v]
  /\ pc \in {"Cleaned", "CleanedAgain"} =>
       \A v \in Copies :
         /\ IsClean(run.arg) => run.result[v] = run.arg
         /\ run.arg \in {Example1, Example2} => run.result[v] = Example

C18_Witness ==
  /\ pc = "CleanedAgain"
  /\ run.arg = <<"-", "-", "1">>
  /\ run.again["tk"] = <<"1">>

\* C19: the result of each copy of clean_isbn is the argument without its
\* hyphens and whitespace characters (space, tab, newline), the other
\* characters in their order, and the three copies return the same result.
C19_CleanRemovesWhitespace ==
  pc = "Cleaned" =>
    \A v \in Copies :
      /\ IsClean(run.result[v])
      /\ run.result[v] = SelectSeq(run.arg, LAMBDA c : c \notin {"-", " ", "\t", "\n", "\r"})
      /\ run.result[v] = run.result["qt"]

\* ------------------------------------------------------- cover downloads

\* A cover file of the book of this run, of the given kind, is in the covers
\* directory.
CoverFile(kind) == [name |-> run.isbn, kind |-> kind] \in covers

\* C21: after the cover step of an add-book, the record's ImagePath is
\* non-empty only if the cover file was written completely and is a valid
\* image; when the bytes are not a valid image the file is gone and ImagePath
\* is empty.
C21_ImagePathValidated ==
  (AddReturned /\ run.cover # "none") =>
    /\ Truthy(book_details.ImagePath) => (run.cover = "Image" /\ CoverFile("image"))
    /\ run.cover = "Corrupt" =>
         /\ ~Truthy(book_details.ImagePath)
         /\ \A f \in covers : f.name # run.isbn

\* The metadata document has no usable cover identifier: no cover URL, and a
\* covers list that is empty or holds the id 0 or -1.
UnusableRef(ref) ==
  /\ ~Truthy(ref.medium)
  /\ ref.covers \in {<<>>, <<JInt(0)>>, <<JInt(-1)>>}

\* C22: once the lookup of an add-book returned a document without a usable
\* cover identifier, no step of the run issues a cover request, sets
\* ImagePath or changes the covers directory.
C22_NoRequestWithoutCoverId ==
  [][(run'.op = "add" /\ book_details' # NoDetails /\ UnusableRef(cover_ref')) =>
       /\ covers' = covers
       /\ "cover" \notin Range(run'.reqs)
       /\ run'.cover = "none"
       /\ ~Truthy(book_details'.ImagePath)]_vars

C22_Witness ==
  /\ AddReturned
  /\ run.result = "Done"
  /\ book_details # NoDetails
  /\ cover_ref = [medium |-> PyNone, covers |-> <<JInt(0)>>]

\* C23: a cover response whose content type is not an image type (or is
\* missing) leaves the covers directory as it was and the record without an
\* image.
C23_NonImageNotWritten ==
  [][(pc = "FetchingCover" /\ ~QtIsImage(ContentType(run'.cover))) =>
       /\ covers' = covers
       /\ ~Truthy(book_details'.ImagePath)]_vars

\* C25: a PySide add-book whose metadata lookup succeeded reaches the
\* confirmation step, and ends cancelled, or ends done with its record in
\* the collection and in the file.
C25_QtAddReachesConfirmation ==
  (variant = "qt" /\ AddReturned /\ book_details # NoDetails) =>
    \/ run.result = "Cancelled"
    \/ /\ run.confirmed
       /\ run.result = "Done"
       /\ run.isbn \in ISBNs(collection)
       /\ file = WrittenFile(variant, collection)

\* C26: whenever the Tkinter application is idle, the item ids of the
\* Treeview are the ISBNs of the records of the collection.
C26_TreeMirrorsCollection ==
  (variant = "tk" /\ pc = "Idle") => tree = ISBNs(collection)

C28_LoadWritesNothing ==
  LoadReturned =>
    /\ run.disk.exists => file = run.disk
    /\ ~run.disk.exists =>
         file \in (IF variant = "tk" THEN {NoFile}
                   ELSE {NoFile, CsvFile(FIELDNAMES("qt"), <<>>)})

C28_Witness ==
  /\ LoadReturned
  /\ variant = "qt"
  /\ run.disk.exists
  /\ run.disk.hdr # FIELDNAMES("qt")
  /\ collection # <<>>
  /\ file = run.disk

\* ------------------------------------------------------ author resolution

\* The Author text of the details a lookup returned.
AuthorText == IF variant = "demo" THEN book_details.authors ELSE book_details.Author

AuthorTexts ==
  {<<"x">>, <<"Unknown Author">>, <<"Author fetch error">>,
   <<"Author data format error">>, StrOfRef}

\* C30: a lookup whose ISBN request succeeded returns details whatever the
\* author requests do: the Author text is the comma-separated list of one
\* name for each of the first two author references, where a reference whose
\* request failed has the placeholder "Author fetch error" and a reference
\* whose request succeeded has the name it returned.
C30_AuthorFailureTolerated ==
  (pc = "Returned" /\ run.op = "lookup" /\ run.result = "Parsed"
     /\ run.doc.authors # <<>>) =>
    \E names \in [1..Len(FirstTwo(run.doc.authors)) -> AuthorTexts] :
      /\ AuthorText = Join(names, CommaSpace)
      /\ \A i \in DOMAIN names :
           run.doc.authors[i] =>
             names[i] = IF run.outs[i].ok
                        THEN GetOr(run.outs[i].name, <<"Unknown Author">>)
                        ELSE <<"Author fetch error">>

C30_Witness ==
  /\ pc = "Returned"
  /\ run.op = "lookup"
  /\ run.result = "Parsed"
  /\ run.doc.authors = <<TRUE, TRUE>>
  /\ ~run.outs[1].ok
  /\ run.outs[2] = [ok |-> TRUE, name |-> <<"x">>]
  /\ AuthorText = <<"Author fetch error", ",", " ", "x">>

\* --------------------------------------------------------- demo generator

\* C24: when the request for the large rendition of a cover fails (HTTP
\* error, connection error, timeout, or a content type that is not an image)
\* the generator requests the medium rendition before it gives up.
C24_FallbackToSmaller ==
  (variant = "demo" /\ "cover-L" \in Range(run.reqs)
     /\ (CoverRequestFailed(run.cover) \/ ~QtIsImage(ContentType(run.cover)))) =>
    "cover-M" \in Range(run.reqs)

\* C29: when the PySide application loads the file generate_demo_data wrote,
\* its collection has one record for each generated book, with that book's
\* ISBN and Title.
C29_DemoFileLoads ==
  (LoadReturned /\ run.before # <<>>
     /\ run.disk = WrittenFile("demo", run.before)) =>
    /\ Len(collection) = Len(run.before)
    /\ \A i \in 1..Len(run.before) :
         \E j \in 1..Len(collection) :
           /\ collection[j].ISBN = run.before[i].isbn_13
           /\ collection[j].Title = run.before[i].title

====
